---- MODULE Spec2Model ----
(***************************************************************************)
(* Model of the account backend: the profile store with its email/phone   *)
(* verification codes (app/services/profiles.py), the auth routes          *)
(* (app/routers/auth.py) and the notification routes                       *)
(* (app/routers/notifications.py).                                         *)
(*                                                                         *)
(* Spec runs the store methods one call at a time; RaceSpec lets two calls *)
(* overlap; AuthSpec and LoginSpec run the auth routes; FeedSpec runs the  *)
(* notification routes.                                                    *)
(*                                                                         *)
(* Python values are modelled as follows.  An Optional[T] is a set with at *)
(* most one element: None is {} and a present value v is {v}.  A str is a  *)
(* sequence of one-character strings.  A datetime is a number of seconds.  *)
(***************************************************************************)
EXTENDS Integers, Sequences, FiniteSets, TLC

(* ------------------------------ bounds -------------------------------- *)

\* codes are drawn from 0..MaxCode instead of 0..999999
MaxCode == 1
\* the session manager generates at most MaxTokens tokens
MaxTokens == 3
\* the event producers write at most MaxNotifs notifications
MaxNotifs == 57
\* at most MaxRequests requests have their database session open at a time
MaxRequests == 2

(* ------------------------- program constants -------------------------- *)

CODE_TTL_MINUTES == 15
REQUEST_COOLDOWN_SECONDS == 60
\* config.SESSION_TTL_MINUTES, imported by the auth routes; taken as 30
SESSION_TTL_MINUTES == 30
\* list_notifications: .limit(50)
LIMIT == 50

(* --------------------------- Python values ---------------------------- *)

None == {}
Some(v) == {v}
Get(o) == CHOOSE v \in o : TRUE

\* timedelta(minutes=m) in seconds
timedelta_minutes(m) == m * 60

\* str.lower() on the characters the inputs use
LowerChar(c) == IF c = "A" THEN "a" ELSE IF c = "B" THEN "b" ELSE c
Lower(s) == [i \in 1..Len(s) |-> LowerChar(s[i])]

\* str.strip(): drop leading and trailing whitespace
RECURSIVE LStrip(_)
LStrip(s) == IF s # <<>> /\ Head(s) = " " THEN LStrip(Tail(s)) ELSE s
RECURSIVE RStrip(_)
RStrip(s) == IF s # <<>> /\ s[Len(s)] = " " THEN RStrip(SubSeq(s, 1, Len(s) - 1)) ELSE s
Strip(s) == RStrip(LStrip(s))

\* `x or None` for a str x: the empty string is falsy
OrNone(s) == IF s = <<>> THEN None ELSE Some(s)

\* f"{n:06d}": six decimal digits, zero padded
Pow10(k) == IF k = 0 THEN 1 ELSE IF k = 1 THEN 10 ELSE IF k = 2 THEN 100
            ELSE IF k = 3 THEN 1000 ELSE IF k = 4 THEN 10000 ELSE 100000
Digit(d) == CASE d = 0 -> "0" [] d = 1 -> "1" [] d = 2 -> "2" [] d = 3 -> "3"
              [] d = 4 -> "4" [] d = 5 -> "5" [] d = 6 -> "6" [] d = 7 -> "7"
              [] d = 8 -> "8" [] d = 9 -> "9"
Format06(n) == [i \in 1..6 |-> Digit((n \div Pow10(6 - i)) % 10)]

\* the codes _generate_code can return
GeneratedCodes == {Format06(n) : n \in 0..MaxCode}

\* security.hash_password / security.verify_password: a one-way hash that
\* matches exactly the plaintext it was made from
hash_password(code) == [hashed |-> code]
verify_password(code, h) == h = hash_password(code)

(* ------------------------------ inputs -------------------------------- *)

Accounts == {"alice"}
Usernames == Accounts \cup {"ghost"}

EmailInputs == {<<"a">>, <<" ", "B">>}
PhoneInputs == {<<"1">>, <<" ", "2">>}
\* a call for an unknown account reads none of its other arguments
NoInput == {<<>>}
For(u, inputs) == IF u \in Accounts THEN inputs ELSE NoInput
CodeInputs == GeneratedCodes

\* the instants at which calls are made: either side of the end of the
\* cooldown and of the expiry of a code issued at 0
Instants ==
    LET c == REQUEST_COOLDOWN_SECONDS
        t == timedelta_minutes(CODE_TTL_MINUTES)
    IN  {0, c - 1, c, t, t + 1}

\* the auth routes: usernames as typed, passwords, roles, tokens presented
UsernameInputs == {<<"a">>, <<" ", "a">>, <<"b">>, <<" ">>}
PasswordInputs == {"pw1", "bad"}
Roles == {"member", "admin"}
Tokens == {ToString(i) : i \in 1..MaxTokens}
AuthInstants == {0, SESSION_TTL_MINUTES * 60 - 1, SESSION_TTL_MINUTES * 60}

\* UpdateProfilePayload: every field Optional, None when omitted
Payloads ==
    [email : {None} \cup {Some(e) : e \in EmailInputs \cup {<<>>}},
     phoneE164 : {None} \cup {Some(p) : p \in PhoneInputs},
     firstName : {None, Some(<<"x">>)}]

\* the payloads that name no display or preference field; Spec draws its
\* update_profile calls from these, so first_name keeps its initial value there
ChannelPayloads == {payload \in Payloads : payload.firstName = None}

(* ------------------------------- state -------------------------------- *)

VARIABLES
    profiles,   \* committed user_profiles rows: username -> Optional[UserProfile]
    clock,      \* what utc_now() returns
    lastOp,     \* the call just made at `clock`: its name, outcome and branches taken
    issued,     \* the last code handed out: channel, plaintext, time, and what happened since
    credentials,\* user accounts: username -> password and role
    signups,    \* the signups recorded with the session manager and the event store
    sessions,   \* the session manager's table: token -> Session
    minted,     \* every token the session manager has generated
    loggedOut,  \* the tokens whose logout request was answered 204
    response,   \* the HTTP response of the last auth request, as sent to the client
    notifications, \* the notifications table: id -> Notification
    feed,       \* the reply of the last notification request
    inflight,   \* the requests whose session is open: what each loaded and will commit
    raceStart   \* the committed row when the first of the open sessions loaded it

authVars == <<credentials, signups, sessions, minted, loggedOut, response>>
storeVars == <<profiles, lastOp, issued>>
feedVars == <<notifications, feed>>
raceVars == <<inflight, raceStart>>
vars == <<profiles, clock, lastOp, issued, credentials, signups, sessions, minted,
          loggedOut, response, notifications, feed, inflight, raceStart>>

\* UserProfile(user_id=...) as the ORM creates it: every column NULL.
\* first_name stands for the nine display and preference columns, which
\* update_profile all treats alike; updated_at is left out.
NewProfile ==
    [email |-> None, email_verified_at |-> None,
     phone_e164 |-> None, phone_verified_at |-> None,
     verify_email_code_hash |-> None, verify_phone_code_hash |-> None,
     verify_expires_at |-> None, verify_requested_at |-> None,
     first_name |-> None]

\* _get_or_create_profile: the row, or a fresh one added to the session
get_or_create_profile(row) == IF row = None THEN NewProfile ELSE Get(row)

\* consumed: a verify call returned True since the code was issued
\* reset: an update_profile call took a reset branch since the code was issued
NoIssue == [channel |-> "none", code |-> <<>>, at |-> 0,
            consumed |-> FALSE, reset |-> FALSE]

\* arg: the candidate of a verify call, the payload of an update_profile call
\* for an existing account or of a login kept by LoginAttempt, None for the
\* other calls
\* replaced: after a successful request call, the channel and plaintext of the
\* code it replaced, if that one had been neither consumed nor reset
NoPrior == [channel |-> "none", code |-> <<>>]
NoOp == [op |-> "none", arg |-> None, result |-> "none", path |-> {}, replaced |-> NoPrior]
Op(name, a, t) ==
    [op |-> name, arg |-> a, result |-> t.result, path |-> t.path,
     replaced |-> IF /\ "issued" \in t.path
                     /\ issued.channel # "none" /\ ~issued.consumed /\ ~issued.reset
                  THEN [channel |-> issued.channel, code |-> issued.code]
                  ELSE NoPrior]

NoResponse == [op |-> "none", status |-> "none", cookies |-> {}, body |-> None]

\* arg: the notification id of a mark-read request, 0 for the other requests
NoFeed == [op |-> "none", caller |-> "none", arg |-> 0, status |-> "none",
           detail |-> "none", items |-> <<>>]

\* a store method call: its name and arguments
NoPayload == [email |-> None, phoneE164 |-> None, firstName |-> None]
Call(name, payload, value, code) ==
    [op |-> name, payload |-> payload, value |-> value, code |-> code, now |-> 0]

\* a request whose session is not open yet
Requests == 1..MaxRequests
Idle == [pc |-> "idle", call |-> Call("none", NoPayload, <<>>, <<>>), snap |-> NewProfile,
         txn |-> [row |-> NewProfile, commit |-> FALSE, result |-> "none", path |-> {}]]

\* the accounts that exist at start: one member, one admin
InitialCredentials ==
    (<<"a">> :> [password |-> "pw1", role |-> "member"])
      @@ (<<"r">> :> [password |-> "pw1", role |-> "admin"])

Init ==
    /\ profiles = [u \in Accounts |-> None]
    /\ clock = 0
    /\ lastOp = NoOp
    /\ issued = NoIssue
    /\ credentials = InitialCredentials
    /\ signups = {}
    /\ sessions = << >>
    /\ minted = {}
    /\ loggedOut = {}
    /\ response = NoResponse
    /\ notifications = <<>>
    /\ feed = NoFeed
    /\ inflight = [r \in Requests |-> Idle]
    /\ raceStart = None

(* ----------------------- ProfileStore, per call ----------------------- *)
\* Each operator is the body of one store method run on the row `p` the
\* session loaded (or created): the row as the method leaves it, whether the
\* method reached session.commit(), what it returned or raised, and the
\* branches it took.  A session closed without commit rolls its changes back.

Txn(p, c, r, b) == [row |-> p, commit |-> c, result |-> r, path |-> b]

\* update_profile: the condition of the email branch
email_differs(p, payload) == payload.email # None /\ payload.email # p.email

\* variant: the email branch leaves the request timestamp in place
update_email_keeps_request_time(p, payload) ==
    IF email_differs(p, payload)
    THEN [p EXCEPT !.email = OrNone(Strip(Lower(Get(payload.email)))),
                   !.email_verified_at = None,
                   !.verify_email_code_hash = None,
                   !.verify_expires_at = None]
    ELSE p

\* update_profile: the email branch
update_email(p, payload) ==
    IF email_differs(p, payload)
    THEN [p EXCEPT !.email = OrNone(Strip(Lower(Get(payload.email)))),
                   !.email_verified_at = None,
                   !.verify_email_code_hash = None,
                   !.verify_expires_at = None,
                   !.verify_requested_at = None]
    ELSE p

\* update_profile: the condition of the phone branch
phone_differs(p, payload) == payload.phoneE164 # None /\ payload.phoneE164 # p.phone_e164

\* update_profile: the phone branch
update_phone(p, payload) ==
    IF phone_differs(p, payload)
    THEN [p EXCEPT !.phone_e164 = OrNone(Strip(Get(payload.phoneE164))),
                   !.phone_verified_at = None,
                   !.verify_phone_code_hash = None,
                   !.verify_expires_at = None,
                   !.verify_requested_at = None]
    ELSE p

\* update_profile: the display and preference fields
update_fields(p, payload) ==
    IF payload.firstName # None THEN [p EXCEPT !.first_name = payload.firstName] ELSE p

update_profile(p, payload) ==
    Txn(update_fields(update_phone(update_email(p, payload), payload), payload),
        TRUE, "ok",
        (IF email_differs(p, payload) THEN {"email_reset"} ELSE {})
          \cup (IF phone_differs(update_email(p, payload), payload)
                THEN {"phone_reset"} ELSE {}))

\* variant: the cooldown still holds at exactly 60 seconds
rate_limited_inclusive(p, now) ==
    /\ p.verify_requested_at # None
    /\ now - Get(p.verify_requested_at) <= REQUEST_COOLDOWN_SECONDS

\* the rate limit of request_email_code / request_phone_code
rate_limited(p, now) ==
    /\ p.verify_requested_at # None
    /\ now - Get(p.verify_requested_at) < REQUEST_COOLDOWN_SECONDS

\* variant: a refused request still restarts the cooldown
request_email_code_restarts_cooldown(p, email, code, now) ==
    IF rate_limited(p, now)
    THEN Txn([p EXCEPT !.verify_requested_at = Some(now)], TRUE, "RateLimited",
             {"rate_limited"})
    ELSE Txn([p EXCEPT !.email = Some(Strip(Lower(email))),
                       !.verify_email_code_hash = Some(hash_password(code)),
                       !.verify_phone_code_hash = None,
                       !.verify_expires_at = Some(now + timedelta_minutes(CODE_TTL_MINUTES)),
                       !.verify_requested_at = Some(now)],
             TRUE, "ok", {"issued"})

request_email_code(p, email, code, now) ==
    IF rate_limited(p, now)
    THEN Txn(p, FALSE, "RateLimited", {"rate_limited"})
    ELSE Txn([p EXCEPT !.email = Some(Strip(Lower(email))),
                       !.verify_email_code_hash = Some(hash_password(code)),
                       !.verify_phone_code_hash = None,
                       !.verify_expires_at = Some(now + timedelta_minutes(CODE_TTL_MINUTES)),
                       !.verify_requested_at = Some(now)],
             TRUE, "ok", {"issued"})

\* variant: a phone request leaves a pending email code in place
request_phone_code_keeps_email(p, phone, code, now) ==
    IF rate_limited(p, now)
    THEN Txn(p, FALSE, "RateLimited", {"rate_limited"})
    ELSE Txn([p EXCEPT !.phone_e164 = Some(Strip(phone)),
                       !.verify_phone_code_hash = Some(hash_password(code)),
                       !.verify_expires_at = Some(now + timedelta_minutes(CODE_TTL_MINUTES)),
                       !.verify_requested_at = Some(now)],
             TRUE, "ok", {"issued"})

request_phone_code(p, phone, code, now) ==
    IF rate_limited(p, now)
    THEN Txn(p, FALSE, "RateLimited", {"rate_limited"})
    ELSE Txn([p EXCEPT !.phone_e164 = Some(Strip(phone)),
                       !.verify_phone_code_hash = Some(hash_password(code)),
                       !.verify_email_code_hash = None,
                       !.verify_expires_at = Some(now + timedelta_minutes(CODE_TTL_MINUTES)),
                       !.verify_requested_at = Some(now)],
             TRUE, "ok", {"issued"})

\* variant: a successful verify leaves the code pending
verify_email_keeps_hash(p, code, now) ==
    IF \/ p.verify_email_code_hash = None
       \/ p.verify_expires_at = None
       \/ Get(p.verify_expires_at) < now
    THEN Txn(p, FALSE, "False", {"not_pending"})
    ELSE IF ~verify_password(code, Get(p.verify_email_code_hash))
    THEN Txn(p, FALSE, "False", {"mismatch"})
    ELSE Txn([p EXCEPT !.email_verified_at = Some(now)], TRUE, "True", {"verified"})

\* variant: the expiry is not looked at
verify_email_ignores_expiry(p, code, now) ==
    IF p.verify_email_code_hash = None
    THEN Txn(p, FALSE, "False", {"not_pending"})
    ELSE IF ~verify_password(code, Get(p.verify_email_code_hash))
    THEN Txn(p, FALSE, "False", {"mismatch"})
    ELSE Txn([p EXCEPT !.email_verified_at = Some(now),
                       !.verify_email_code_hash = None,
                       !.verify_expires_at = None,
                       !.verify_requested_at = None],
             TRUE, "True", {"verified"})

\* variant: a wrong candidate uses the pending email code up
verify_email_burns_code(p, code, now) ==
    IF \/ p.verify_email_code_hash = None
       \/ p.verify_expires_at = None
       \/ Get(p.verify_expires_at) < now
    THEN Txn(p, FALSE, "False", {"not_pending"})
    ELSE IF ~verify_password(code, Get(p.verify_email_code_hash))
    THEN Txn([p EXCEPT !.verify_email_code_hash = None], TRUE, "False", {"mismatch"})
    ELSE Txn([p EXCEPT !.email_verified_at = Some(now),
                       !.verify_email_code_hash = None,
                       !.verify_expires_at = None,
                       !.verify_requested_at = None],
             TRUE, "True", {"verified"})

verify_email(p, code, now) ==
    IF \/ p.verify_email_code_hash = None
       \/ p.verify_expires_at = None
       \/ Get(p.verify_expires_at) < now
    THEN Txn(p, FALSE, "False", {"not_pending"})
    ELSE IF ~verify_password(code, Get(p.verify_email_code_hash))
    THEN Txn(p, FALSE, "False", {"mismatch"})
    ELSE Txn([p EXCEPT !.email_verified_at = Some(now),
                       !.verify_email_code_hash = None,
                       !.verify_expires_at = None,
                       !.verify_requested_at = None],
             TRUE, "True", {"verified"})

\* variant: a wrong candidate uses the pending code up
verify_phone_burns_code(p, code, now) ==
    IF \/ p.verify_phone_code_hash = None
       \/ p.verify_expires_at = None
       \/ Get(p.verify_expires_at) < now
    THEN Txn(p, FALSE, "False", {"not_pending"})
    ELSE IF ~verify_password(code, Get(p.verify_phone_code_hash))
    THEN Txn([p EXCEPT !.verify_phone_code_hash = None], TRUE, "False", {"mismatch"})
    ELSE Txn([p EXCEPT !.phone_verified_at = Some(now),
                       !.verify_phone_code_hash = None,
                       !.verify_expires_at = None,
                       !.verify_requested_at = None],
             TRUE, "True", {"verified"})

verify_phone(p, code, now) ==
    IF \/ p.verify_phone_code_hash = None
       \/ p.verify_expires_at = None
       \/ Get(p.verify_expires_at) < now
    THEN Txn(p, FALSE, "False", {"not_pending"})
    ELSE IF ~verify_password(code, Get(p.verify_phone_code_hash))
    THEN Txn(p, FALSE, "False", {"mismatch"})
    ELSE Txn([p EXCEPT !.phone_verified_at = Some(now),
                       !.verify_phone_code_hash = None,
                       !.verify_expires_at = None,
                       !.verify_requested_at = None],
             TRUE, "True", {"verified"})

\* get_profile: loads or creates the row and returns; there is no commit
get_profile(p) == Txn(p, FALSE, "ok", {})

(* ------------------------------ actions ------------------------------- *)

\* `async with session_factory() as session`: the row loaded or created, the
\* method body, and the commit or rollback at exit
RunTxn(name, u, a, t) ==
    /\ lastOp' = Op(name, a, t)
    /\ profiles' = IF t.commit THEN [profiles EXCEPT ![u] = Some(t.row)] ELSE profiles

\* `if account is None: raise ValueError('Account not found')`
AccountNotFound(name, a) ==
    /\ lastOp' = Op(name, a, Txn(None, FALSE, "AccountNotFound", {}))
    /\ UNCHANGED profiles

GetProfile(u) ==
    /\ IF u \notin Accounts
       THEN AccountNotFound("get_profile", None)
       ELSE RunTxn("get_profile", u, None, get_profile(get_or_create_profile(profiles[u])))
    /\ UNCHANGED <<clock, issued, authVars, feedVars, raceVars>>

UpdateProfile(u, payload) ==
    /\ IF u \notin Accounts
       THEN AccountNotFound("update_profile", None) /\ UNCHANGED issued
       ELSE LET t == update_profile(get_or_create_profile(profiles[u]), payload)
            IN  /\ RunTxn("update_profile", u, Some(payload), t)
                /\ issued' = IF t.path # {} THEN [issued EXCEPT !.reset = TRUE] ELSE issued
    /\ UNCHANGED <<clock, authVars, feedVars, raceVars>>

Issue(ch, code, t) ==
    IF t.result = "ok"
    THEN [channel |-> ch, code |-> code, at |-> clock, consumed |-> FALSE, reset |-> FALSE]
    ELSE issued

RequestEmailCode(u, email, code) ==
    /\ IF u \notin Accounts
       THEN AccountNotFound("request_email_code", None) /\ UNCHANGED issued
       ELSE LET t == request_email_code(get_or_create_profile(profiles[u]), email, code, clock)
            IN  RunTxn("request_email_code", u, None, t) /\ issued' = Issue("email", code, t)
    /\ UNCHANGED <<clock, authVars, feedVars, raceVars>>

RequestPhoneCode(u, phone, code) ==
    /\ IF u \notin Accounts
       THEN AccountNotFound("request_phone_code", None) /\ UNCHANGED issued
       ELSE LET t == request_phone_code(get_or_create_profile(profiles[u]), phone, code, clock)
            IN  RunTxn("request_phone_code", u, None, t) /\ issued' = Issue("phone", code, t)
    /\ UNCHANGED <<clock, authVars, feedVars, raceVars>>

Consume(t) == IF t.result = "True" THEN [issued EXCEPT !.consumed = TRUE] ELSE issued

VerifyEmail(u, code) ==
    /\ IF u \notin Accounts
       THEN AccountNotFound("verify_email", None) /\ UNCHANGED issued
       ELSE LET t == verify_email(get_or_create_profile(profiles[u]), code, clock)
            IN  RunTxn("verify_email", u, Some(code), t) /\ issued' = Consume(t)
    /\ UNCHANGED <<clock, authVars, feedVars, raceVars>>

VerifyPhone(u, code) ==
    /\ IF u \notin Accounts
       THEN AccountNotFound("verify_phone", None) /\ UNCHANGED issued
       ELSE LET t == verify_phone(get_or_create_profile(profiles[u]), code, clock)
            IN  RunTxn("verify_phone", u, Some(code), t) /\ issued' = Consume(t)
    /\ UNCHANGED <<clock, authVars, feedVars, raceVars>>

\* time passes between calls; the last call's reply is gone by then
Tick(t) ==
    /\ t > clock
    /\ clock' = t
    /\ lastOp' = NoOp
    /\ UNCHANGED <<profiles, issued, authVars, feedVars, raceVars>>

Next ==
    \/ \E u \in Usernames : GetProfile(u)
    \/ \E u \in Usernames : \E payload \in For(u, ChannelPayloads) : UpdateProfile(u, payload)
    \/ \E u \in Usernames : \E email \in For(u, EmailInputs), code \in For(u, GeneratedCodes) :
          RequestEmailCode(u, email, code)
    \/ \E u \in Usernames : \E phone \in For(u, PhoneInputs), code \in For(u, GeneratedCodes) :
          RequestPhoneCode(u, phone, code)
    \/ \E u \in Usernames : \E code \in For(u, CodeInputs) : VerifyEmail(u, code)
    \/ \E u \in Usernames : \E code \in For(u, CodeInputs) : VerifyPhone(u, code)
    \/ \E t \in Instants : Tick(t)

Spec == Init /\ [][Next]_vars

(* ---------------------- sessions and credentials ---------------------- *)
\* UserStore and SessionManager, as the specification describes them.

\* UserStore.create_member: a new member account; a taken username is refused
create_member(username, password) ==
    IF username \in DOMAIN credentials
    THEN [ok |-> FALSE, credentials |-> credentials]
    ELSE [ok |-> TRUE,
          credentials |-> credentials @@ (username :> [password |-> password, role |-> "member"])]

\* UserStore.verify_credentials: the account, or InvalidCredentials when the
\* username, the password or the expected role does not match
verify_credentials(username, password, role) ==
    /\ username \in DOMAIN credentials
    /\ credentials[username].password = password
    /\ credentials[username].role = role

\* SessionManager.create: a token never generated before, expiry = now + TTL
create(token, username, role) ==
    [token |-> token, username |-> username, role |-> role,
     created_at |-> clock, expires_at |-> clock + SESSION_TTL_MINUTES * 60]

\* SessionManager.validate: Unauthenticated if the token is absent or expired
validate(token) ==
    IF token \in DOMAIN sessions /\ clock < sessions[token].expires_at
    THEN "ok" ELSE "Unauthenticated"

\* SessionManager.invalidate: idempotent removal
invalidate(token) == [t \in DOMAIN sessions \ {token} |-> sessions[t]]

(* ---------------------------- auth routes ----------------------------- *)

\* Response.set_cookie(name, value, httponly=..., samesite='lax', max_age=...)
set_cookie(name, value, httponly, max_age) ==
    [name |-> name, value |-> value, httponly |-> httponly, samesite |-> "lax",
     max_age |-> max_age]

\* Response.delete_cookie(name): the cookie set empty with max-age 0
delete_cookie(name) == set_cookie(name, "", FALSE, 0)

\* What the framework sends.  A handler that returns a Response object has
\* that object sent as it is; for any other return value the framework builds
\* the response from the value and the headers of the injected `response`.
Returned(status, body, injectedCookies, isResponse) ==
    [status |-> status, body |-> body,
     cookies |-> IF isResponse THEN {} ELSE injectedCookies]

\* an HTTPException raised by the handler or by a dependency
Raised(status) == [status |-> status, body |-> None, cookies |-> {}]

Reply(name, r) == response' = [op |-> name, status |-> r.status, cookies |-> r.cookies,
                               body |-> r.body]

\* the login request just made: the LoginPayload as sent
Attempt(rawUsername, password, role) ==
    [NoOp EXCEPT !.op = "login",
                 !.arg = Some([username |-> rawUsername, password |-> password, role |-> role])]

Signup(rawUsername, password) ==
    LET username == Strip(rawUsername)
        record == create_member(username, password)
    IN  /\ IF username = <<>>
           THEN /\ Reply("signup", Raised("400"))
                /\ UNCHANGED <<credentials, signups>>
           ELSE IF ~record.ok
           THEN /\ Reply("signup", Raised("InvalidCredentials"))
                /\ UNCHANGED <<credentials, signups>>
           ELSE /\ credentials' = record.credentials
                /\ signups' = signups \cup {[username |-> username, role |-> "member"]}
                /\ Reply("signup", Returned("201", Some([username |-> username]), {}, FALSE))
        /\ lastOp' = NoOp
        /\ UNCHANGED <<clock, profiles, issued, feedVars, raceVars, sessions, minted, loggedOut>>

\* variant: the cookies are set before the credentials are checked
login_sets_cookies_first(rawUsername, password, role, token) ==
    LET sanitized_username == Strip(rawUsername)
        session == create(token, sanitized_username, role)
        max_age == SESSION_TTL_MINUTES * 60
        cookies == {set_cookie("session_token", session.token, TRUE, max_age),
                    set_cookie("session_role", session.role, FALSE, max_age)}
    IN  /\ IF sanitized_username = <<>>
           THEN /\ Reply("login", Raised("400"))
                /\ UNCHANGED <<sessions, minted>>
           ELSE IF ~verify_credentials(sanitized_username, password, role)
           THEN /\ Reply("login", [Raised("InvalidCredentials") EXCEPT !.cookies = cookies])
                /\ UNCHANGED <<sessions, minted>>
           ELSE /\ token \notin minted
                /\ sessions' = sessions @@ (token :> session)
                /\ minted' = minted \cup {token}
                /\ Reply("login",
                         Returned("200",
                                  Some([token |-> session.token, role |-> session.role,
                                        username |-> session.username]),
                                  cookies, FALSE))
        /\ UNCHANGED <<clock, profiles, issued, feedVars, raceVars, credentials, signups, loggedOut>>

\* the login handler
login(rawUsername, password, role, token) ==
    LET sanitized_username == Strip(rawUsername)
        session == create(token, sanitized_username, credentials[sanitized_username].role)
        max_age == SESSION_TTL_MINUTES * 60
    IN  /\ IF sanitized_username = <<>>
           THEN /\ Reply("login", Raised("400"))
                /\ UNCHANGED <<sessions, minted>>
           ELSE IF ~verify_credentials(sanitized_username, password, role)
           THEN /\ Reply("login", Raised("InvalidCredentials"))
                /\ UNCHANGED <<sessions, minted>>
           ELSE /\ token \notin minted
                /\ sessions' = sessions @@ (token :> session)
                /\ minted' = minted \cup {token}
                /\ Reply("login",
                         Returned("200",
                                  Some([token |-> session.token, role |-> session.role,
                                        username |-> session.username]),
                                  {set_cookie("session_token", session.token, TRUE, max_age),
                                   set_cookie("session_role", session.role, FALSE, max_age)},
                                  FALSE))
        /\ UNCHANGED <<clock, profiles, issued, feedVars, raceVars, credentials, signups, loggedOut>>

Login(rawUsername, password, role, token) ==
    login(rawUsername, password, role, token) /\ UNCHANGED lastOp

\* a login whose payload is kept in lastOp
LoginAttempt(rawUsername, password, role, token) ==
    login(rawUsername, password, role, token) /\ lastOp' = Attempt(rawUsername, password, role)

\* variant: logout leaves the session in the table
LogoutKeepsSession(token) ==
    /\ IF validate(token) # "ok"
       THEN /\ Reply("logout", Raised("Unauthenticated"))
            /\ UNCHANGED loggedOut
       ELSE /\ loggedOut' = loggedOut \cup {token}
            /\ Reply("logout",
                     Returned("204", None,
                              {delete_cookie("session_token"), delete_cookie("session_role")},
                              TRUE))
    /\ lastOp' = NoOp
    /\ UNCHANGED <<clock, profiles, issued, feedVars, raceVars, credentials, signups, minted, sessions>>

\* logout: require_session validates the presented token; the handler
\* invalidates it, deletes the cookies on the injected response and returns a
\* new Response(status_code=204)
Logout(token) ==
    /\ IF validate(token) # "ok"
       THEN /\ Reply("logout", Raised("Unauthenticated"))
            /\ UNCHANGED <<sessions, loggedOut>>
       ELSE /\ sessions' = invalidate(token)
            /\ loggedOut' = loggedOut \cup {token}
            /\ Reply("logout",
                     Returned("204", None,
                              {delete_cookie("session_token"), delete_cookie("session_role")},
                              TRUE))
    /\ lastOp' = NoOp
    /\ UNCHANGED <<clock, profiles, issued, feedVars, raceVars, credentials, signups, minted>>

AuthNext ==
    \/ \E u \in UsernameInputs, pw \in PasswordInputs : Signup(u, pw)
    \/ \E u \in UsernameInputs, pw \in PasswordInputs, r \in Roles, t \in Tokens :
          Login(u, pw, r, t)
    \/ \E t \in Tokens : Logout(t)
    \/ \E t \in AuthInstants : Tick(t)

AuthSpec == Init /\ [][AuthNext]_vars

\* logins with their payloads kept, logouts and the passing of time, for the
\* accounts that exist at start
LoginNext ==
    \/ \E u \in UsernameInputs, pw \in PasswordInputs, r \in Roles, t \in Tokens :
          LoginAttempt(u, pw, r, t)
    \/ \E t \in Tokens : Logout(t)
    \/ \E t \in AuthInstants : Tick(t)

LoginSpec == Init /\ [][LoginNext]_vars

(* ------------------------- notification feed -------------------------- *)
\* The notifications table is a sequence: the row with id i is at index i.
\* A JSON payload is a set of <<key, value>> pairs.

\* user_accounts: username -> id.  "ghost" holds a session but has no row.
UserIds == [alice |-> 1, bob |-> 2]
Callers == {"alice", "bob", "ghost"}
\* the ids presented to mark_notification_read
NotificationIds == {1, 10, MaxNotifs + 1}
FeedInstants == {1}
\* ORDER BY created_at leaves rows of equal created_at in an order the
\* database chooses; two of the orders it can choose
TieOrders == {"id_asc", "id_desc"}

\* the i-th notification as its producer writes it: every tenth one is bob's,
\* creation times repeat and do not follow the ids, payloads are null, empty
\* or not empty
Produced(i) ==
    [id |-> i,
     user_id |-> IF i % 10 = 0 THEN UserIds["bob"] ELSE UserIds["alice"],
     type |-> "event",
     data |-> IF i % 3 = 0 THEN None
              ELSE IF i % 3 = 1 THEN Some({}) ELSE Some({<<"k", "v">>}),
     created_at |-> (i * 7) % 5,
     read_at |-> None]

\* an event producer inserts a notification
Emit ==
    /\ Len(notifications) < MaxNotifs
    /\ notifications' = Append(notifications, Produced(Len(notifications) + 1))
    /\ feed' = NoFeed
    /\ UNCHANGED <<clock, storeVars, authVars, raceVars>>

\* _get_user: the account row of the session's username
get_user(caller) == IF caller \in DOMAIN UserIds THEN Some(UserIds[caller]) ELSE None

\* the ids of the table in the order in which the database breaks ties
RECURSIVE Reverse(_)
Reverse(q) == IF q = <<>> THEN <<>> ELSE Append(Reverse(Tail(q)), Head(q))
ScanOrder(tie) ==
    LET ids == [i \in 1..Len(notifications) |-> i]
    IN  IF tie = "id_asc" THEN ids ELSE Reverse(ids)

\* the ids in S with their created_at in T, newest first, ties in scan order
RECURSIVE newest_first(_, _, _)
newest_first(S, T, scan) ==
    IF T = {} THEN <<>>
    ELSE LET latest == CHOOSE t \in T : \A t2 \in T : t2 <= t
             At(i) == i \in S /\ notifications[i].created_at = latest
         IN  SelectSeq(scan, At) \o newest_first(S, T \ {latest}, scan)

\* ORDER BY created_at DESC LIMIT k over the rows with ids in S
order_by_created_at_desc(S, k, tie) ==
    LET sorted == newest_first(S, {notifications[i].created_at : i \in S}, ScanOrder(tie))
    IN  SubSeq(sorted, 1, IF Len(sorted) < k THEN Len(sorted) ELSE k)

\* variant: the query does not filter on the owner
select_notifications_of_all(user_id, tie) ==
    order_by_created_at_desc(DOMAIN notifications, LIMIT, tie)

\* select(Notification).where(user_id == user.id).order_by(...).limit(50)
select_notifications(user_id, tie) ==
    order_by_created_at_desc({i \in DOMAIN notifications : notifications[i].user_id = user_id},
                             LIMIT, tie)

\* `n.data or {}`: None and the empty dict are falsy
data_or_empty(data) == IF data = None \/ Get(data) = {} THEN {} ELSE Get(data)

NotificationOut(n) ==
    [id |-> n.id, type |-> n.type, data |-> data_or_empty(n.data),
     createdAt |-> n.created_at, readAt |-> n.read_at]

FeedReply(name, caller, arg, status, detail, items) ==
    feed' = [op |-> name, caller |-> caller, arg |-> arg, status |-> status,
             detail |-> detail, items |-> items]

list_notifications(caller, tie) ==
    LET user == get_user(caller)
        rows == select_notifications(Get(user), tie)
    IN  /\ IF user = None
           THEN FeedReply("list", caller, 0, "404", "Account not found", <<>>)
           ELSE FeedReply("list", caller, 0, "200", "none",
                          [k \in 1..Len(rows) |-> NotificationOut(notifications[rows[k]])])
        /\ UNCHANGED <<notifications, clock, storeVars, authVars, raceVars>>

\* variant: the notification is looked up by id alone
select_notification_by_id(notification_id, user_id) ==
    IF notification_id \in DOMAIN notifications THEN Some(notification_id) ELSE None

\* select(Notification).where(id == notification_id, user_id == user.id)
select_notification(notification_id, user_id) ==
    IF /\ notification_id \in DOMAIN notifications
       /\ notifications[notification_id].user_id = user_id
    THEN Some(notification_id) ELSE None

mark_notification_read(caller, notification_id) ==
    LET user == get_user(caller)
        notif == select_notification(notification_id, Get(user))
    IN  /\ IF user = None
           THEN /\ FeedReply("mark_read", caller, notification_id, "404", "Account not found", <<>>)
                /\ UNCHANGED notifications
           ELSE IF notif = None
           THEN /\ FeedReply("mark_read", caller, notification_id, "404",
                             "Notification not found", <<>>)
                /\ UNCHANGED notifications
           ELSE /\ notifications' = [notifications EXCEPT ![Get(notif)].read_at = Some(clock)]
                /\ FeedReply("mark_read", caller, notification_id, "204", "none", <<>>)
        /\ UNCHANGED <<clock, storeVars, authVars, raceVars>>

FeedNext ==
    \/ Emit
    \/ \E caller \in Callers, tie \in TieOrders : list_notifications(caller, tie)
    \/ \E caller \in Callers, id \in NotificationIds : mark_notification_read(caller, id)
    \/ \E t \in FeedInstants : Tick(t)

FeedSpec == Init /\ [][FeedNext]_vars

(* ----------------------- overlapping store calls ---------------------- *)
\* Each store method runs in a session of its own: it awaits the SELECT of
\* the profile row, runs its body on the row it loaded, and awaits the
\* commit.  Other requests run while it awaits.  Nothing in the methods locks
\* the row or checks a version, so the commit's UPDATE sets the columns whose
\* value the body changed and leaves the other columns as they are in the
\* table by then.  Sessions are opened here on rows that exist.

RaceInstants == {REQUEST_COOLDOWN_SECONDS - 1}
RacePayloads == {[NoPayload EXCEPT !.phoneE164 = Some(<<"1">>)]}
RaceCalls ==
    {Call("verify_email", NoPayload, <<>>, Format06(0)),
     Call("update_profile", [NoPayload EXCEPT !.email = Some(<<" ", "B">>)], <<>>, <<>>),
     Call("update_profile", [NoPayload EXCEPT !.firstName = Some(<<"x">>)], <<>>, <<>>),
     Call("request_email_code", NoPayload, <<"a">>, Format06(1)),
     Call("request_phone_code", NoPayload, <<"1">>, Format06(0))}

\* the body of the called method on the row p at time now
Body(call, p, now) ==
    CASE call.op = "update_profile" -> update_profile(p, call.payload)
      [] call.op = "request_email_code" -> request_email_code(p, call.value, call.code, now)
      [] call.op = "request_phone_code" -> request_phone_code(p, call.value, call.code, now)
      [] call.op = "verify_email" -> verify_email(p, call.code, now)
      [] call.op = "verify_phone" -> verify_phone(p, call.code, now)

\* no request has opened its session yet
NoneBegun == \A r \in Requests : inflight[r].pc = "idle"

\* the session is opened, the row is loaded and the body runs on it
Begin(r, u, call) ==
    /\ inflight[r].pc = "idle"
    /\ profiles[u] # None
    /\ LET snap == Get(profiles[u])
       IN  /\ inflight' = [inflight EXCEPT ![r] =
                              [pc |-> "open", call |-> [call EXCEPT !.now = clock],
                               snap |-> snap, txn |-> Body(call, snap, clock)]]
           /\ raceStart' = IF raceStart = None THEN Some(snap) ELSE raceStart
    /\ UNCHANGED <<clock, storeVars, authVars, feedVars>>

\* the UPDATE of a commit: the columns the body changed
Flush(current, snap, row) ==
    [f \in DOMAIN current |-> IF row[f] # snap[f] THEN row[f] ELSE current[f]]

\* the session ends: session.commit() if the body reached it, else rollback
Commit(r, u) ==
    /\ inflight[r].pc = "open"
    /\ inflight' = [inflight EXCEPT ![r].pc = "done"]
    /\ profiles' = IF inflight[r].txn.commit
                   THEN [profiles EXCEPT ![u] =
                           Some(Flush(Get(profiles[u]), inflight[r].snap, inflight[r].txn.row))]
                   ELSE profiles
    /\ UNCHANGED <<clock, lastOp, issued, raceStart, authVars, feedVars>>

RaceNext ==
    \/ NoneBegun /\ \E payload \in RacePayloads : UpdateProfile("alice", payload)
    \/ NoneBegun /\ RequestEmailCode("alice", <<"a">>, Format06(0))
    \/ \E r \in Requests, call \in RaceCalls : Begin(r, "alice", call)
    \/ \E r \in Requests : Commit(r, "alice")
    \/ \E t \in RaceInstants : Tick(t)

RaceSpec == Init /\ [][RaceNext]_vars

(* ------------------------- reading the state -------------------------- *)

\* the row of account u as a reader finds it (every column NULL when absent)
Stored(u) == IF profiles[u] = None THEN NewProfile ELSE Get(profiles[u])

CodeTTL == timedelta_minutes(CODE_TTL_MINUTES)
RequestOps == {"request_email_code", "request_phone_code"}
VerifyOps == {"verify_email", "verify_phone"}
ChannelOf(op) == IF op \in {"request_email_code", "verify_email"} THEN "email" ELSE "phone"

\* the step is a call of one of `ops` for an existing account
Called(ops) == lastOp'.op \in ops /\ lastOp'.result # "AccountNotFound"

\* the code issued last is still to be used: no verify call has returned True
\* and no update_profile call has reset a channel since
Active == issued.channel # "none" /\ ~issued.consumed /\ ~issued.reset

(* ------------------------------- claims ------------------------------- *)

\* C1 as stated: a requestCode call made less than 60 seconds after the
\* previous successful requestCode fails with RateLimited, whatever calls came
\* in between, and one made 60 seconds or more after it succeeds.
C1_CooldownAlways ==
    [][Called(RequestOps) /\ issued.channel # "none" =>
          /\ clock - issued.at < REQUEST_COOLDOWN_SECONDS => lastOp'.result = "RateLimited"
          /\ clock - issued.at >= REQUEST_COOLDOWN_SECONDS => lastOp'.result = "ok"]_vars

\* C1 amended: a requestCode call fails with RateLimited exactly when it is
\* made less than 60 seconds after the previous successful requestCode and
\* neither a successful verifyCode nor a channel-resetting updateProfile has
\* run since; every other requestCode call for an existing account succeeds.
C1_Cooldown ==
    [][Called(RequestOps) =>
          /\ lastOp'.result \in {"RateLimited", "ok"}
          /\ lastOp'.result = "RateLimited" <=>
                (Active /\ clock - issued.at < REQUEST_COOLDOWN_SECONDS)]_vars

\* a phone code is refused 59 seconds after an email code was issued
C1_Witness ==
    /\ lastOp.op = "request_phone_code"
    /\ lastOp.result = "RateLimited"
    /\ issued.channel = "email"
    /\ clock = issued.at + REQUEST_COOLDOWN_SECONDS - 1

\* C2: an operation that alters a channel's stored value leaves that channel
\* not verified, so a verified timestamp always belongs to the value that was
\* verified.
C2_VerifiedValueUnchanged ==
    [][\A u \in Accounts :
          /\ Stored(u)'.email # Stored(u).email => Stored(u)'.email_verified_at = None
          /\ Stored(u)'.phone_e164 # Stored(u).phone_e164 =>
                Stored(u)'.phone_verified_at = None]_vars

\* C3 as stated: after updateProfile with an email (phone) that is present and
\* differs from the stored value, the channel's verified timestamp and pending
\* hash and the shared expiry and request timestamp are null and the stored
\* value is the value given.
C3_CascadeStoresInput ==
    [][\A u \in Accounts :
          Called({"update_profile"}) =>
          LET payload == Get(lastOp'.arg) IN
             /\ payload.email # None /\ payload.email # Stored(u).email =>
                   /\ Stored(u)'.email_verified_at = None
                   /\ Stored(u)'.verify_email_code_hash = None
                   /\ Stored(u)'.verify_expires_at = None
                   /\ Stored(u)'.verify_requested_at = None
                   /\ Stored(u)'.email = payload.email
             /\ payload.phoneE164 # None /\ payload.phoneE164 # Stored(u).phone_e164 =>
                   /\ Stored(u)'.phone_verified_at = None
                   /\ Stored(u)'.verify_phone_code_hash = None
                   /\ Stored(u)'.verify_expires_at = None
                   /\ Stored(u)'.verify_requested_at = None
                   /\ Stored(u)'.phone_e164 = payload.phoneE164]_vars

\* C3 amended: as above, but the stored value is the value given in the form
\* in which it is stored: the email lower-cased and trimmed, the phone
\* trimmed, and null when that leaves the empty string.
C3_Cascade ==
    [][\A u \in Accounts :
          Called({"update_profile"}) =>
          LET payload == Get(lastOp'.arg) IN
             /\ payload.email # None /\ payload.email # Stored(u).email =>
                   /\ Stored(u)'.email_verified_at = None
                   /\ Stored(u)'.verify_email_code_hash = None
                   /\ Stored(u)'.verify_expires_at = None
                   /\ Stored(u)'.verify_requested_at = None
                   /\ Stored(u)'.email = OrNone(Strip(Lower(Get(payload.email))))
             /\ payload.phoneE164 # None /\ payload.phoneE164 # Stored(u).phone_e164 =>
                   /\ Stored(u)'.phone_verified_at = None
                   /\ Stored(u)'.verify_phone_code_hash = None
                   /\ Stored(u)'.verify_expires_at = None
                   /\ Stored(u)'.verify_requested_at = None
                   /\ Stored(u)'.phone_e164 = OrNone(Strip(Get(payload.phoneE164)))]_vars

\* updateProfile has just replaced an email that had been verified with the
\* code issued last
C3_Witness ==
    /\ lastOp.op = "update_profile"
    /\ "email_reset" \in lastOp.path
    /\ \E payload \in ChannelPayloads :
          lastOp.arg = Some(payload) /\ payload.email = Some(<<" ", "B">>)
    /\ issued.channel = "email" /\ issued.consumed
    /\ \E u \in Accounts :
          /\ Stored(u).email = Some(<<"b">>)
          /\ Stored(u).email_verified_at = None
          /\ Stored(u).verify_requested_at = None

\* C4: once verifyCode has returned true for an issued code, every later
\* verifyCode call with that code on that channel returns false until a new
\* code is requested.
C4_OneTimeUse ==
    [][/\ issued.consumed
       /\ Called(VerifyOps)
       /\ ChannelOf(lastOp'.op) = issued.channel
       /\ lastOp'.arg = Some(issued.code)
       => lastOp'.result = "False"]_vars

\* the consumed code is offered again before its expiry and refused
C4_Witness ==
    /\ lastOp.op = "verify_email"
    /\ lastOp.result = "False"
    /\ issued.channel = "email" /\ issued.consumed /\ ~issued.reset
    /\ lastOp.arg = Some(issued.code)
    /\ clock <= issued.at + CodeTTL

\* the channel's verified timestamp of account u
VerifiedAt(u, ch) ==
    IF ch = "email" THEN Stored(u).email_verified_at ELSE Stored(u).phone_verified_at

\* C5: while the issued code is still to be used, a verifyCode call on its
\* channel with another candidate returns false and leaves the profile
\* unchanged, and a call with the issued code before expiry returns true and
\* sets the channel's verified timestamp.
C5_WrongGuessHarmless ==
    [][Active /\ Called(VerifyOps) /\ ChannelOf(lastOp'.op) = issued.channel =>
          /\ lastOp'.arg # Some(issued.code) =>
                lastOp'.result = "False" /\ profiles' = profiles
          /\ lastOp'.arg = Some(issued.code) /\ clock <= issued.at + CodeTTL =>
                /\ lastOp'.result = "True"
                /\ \A u \in Accounts : VerifiedAt(u, issued.channel)' = Some(clock)]_vars

\* a wrong candidate has just been refused for a pending, unexpired phone code
C5_Witness ==
    /\ lastOp.op = "verify_phone"
    /\ lastOp.result = "False"
    /\ lastOp.path = {"mismatch"}
    /\ Active /\ issued.channel = "phone"
    /\ lastOp.arg # Some(issued.code)
    /\ clock <= issued.at + CodeTTL

\* the channel's pending hash of account u
PendingHash(u, ch) ==
    IF ch = "email" THEN Stored(u).verify_email_code_hash
    ELSE Stored(u).verify_phone_code_hash

\* C6: verifyCode returns false and leaves the stored profiles unchanged
\* whenever the channel has no pending hash, no expiry is set, or the time is
\* past the expiry, which is the issue time plus 15 minutes; also when the
\* candidate is the issued code.
C6_Expiry ==
    [][Called(VerifyOps) =>
          /\ \A u \in Accounts :
                (\/ PendingHash(u, ChannelOf(lastOp'.op)) = None
                 \/ Stored(u).verify_expires_at = None
                 \/ Get(Stored(u).verify_expires_at) < clock)
                => lastOp'.result = "False" /\ profiles' = profiles
          /\ (/\ Active
              /\ ChannelOf(lastOp'.op) = issued.channel
              /\ clock > issued.at + CodeTTL)
                => lastOp'.result = "False" /\ profiles' = profiles]_vars

\* the issued email code, still pending, is offered after its expiry and refused
C6_Witness ==
    /\ lastOp.op = "verify_email"
    /\ lastOp.result = "False"
    /\ Active /\ issued.channel = "email"
    /\ lastOp.arg = Some(issued.code)
    /\ clock > issued.at + CodeTTL
    /\ \E u \in Accounts : PendingHash(u, "email") # None

\* what verifyCode would return for account u, channel ch and candidate code
WouldVerify(u, ch, code) ==
    IF ch = "email" THEN verify_email(Stored(u), code, clock).result
    ELSE verify_phone(Stored(u), code, clock).result

\* C7: the email and phone pending hashes are never both set; verifyCode
\* returns true only for the code of the latest successful requestCode, on the
\* channel of that request; and once a requestCode has succeeded, the code it
\* replaced is refused.
C7_SingleActiveCode ==
    /\ \A u \in Accounts :
          ~(PendingHash(u, "email") # None /\ PendingHash(u, "phone") # None)
    /\ lastOp.result = "True" =>
          /\ ChannelOf(lastOp.op) = issued.channel
          /\ lastOp.arg = Some(issued.code)
    /\ (/\ lastOp.op \in RequestOps /\ lastOp.result = "ok"
        /\ lastOp.replaced # NoPrior
        /\ lastOp.replaced # [channel |-> issued.channel, code |-> issued.code])
       => \A u \in Accounts :
             WouldVerify(u, lastOp.replaced.channel, lastOp.replaced.code) = "False"

\* a phone code has just replaced a pending email code with another plaintext
C7_Witness ==
    /\ lastOp.op = "request_phone_code" /\ lastOp.result = "ok"
    /\ lastOp.replaced.channel = "email"
    /\ lastOp.replaced.code # issued.code
    /\ issued.channel = "phone"

\* C8: after getProfile has returned for an existing account, a profile row
\* for that account is in the store.
C8_LazyCreation ==
    lastOp.op = "get_profile" /\ lastOp.result = "ok" =>
       \A u \in Accounts : profiles[u] # None

\* C9: a token whose logout request was answered 204 fails validation with
\* Unauthenticated in every later state, whatever signups, logins and logouts
\* follow.
C9_LogoutEndsSession ==
    \A t \in loggedOut : validate(t) = "Unauthenticated"

\* alice has logged out of one session and holds another, newer one
C9_Witness ==
    \E t \in loggedOut, t2 \in DOMAIN sessions :
       /\ t2 # t
       /\ sessions[t2].username = <<"a">>
       /\ validate(t2) = "ok"
       /\ response.op = "login"

\* C10: the response sent for a successful logout carries the directives that
\* clear the session_token cookie and the session_role cookie.
C10_LogoutClearsCookies ==
    response.op = "logout" /\ response.status = "204" =>
       {delete_cookie("session_token"), delete_cookie("session_role")} \subseteq response.cookies

\* the ids of the notifications that belong to `caller`
OwnedBy(caller) ==
    {i \in DOMAIN notifications : notifications[i].user_id = UserIds[caller]}

\* C11: list returns only notifications of the caller, each once, at most 50
\* of them and all of them when there are at most 50, in non-increasing
\* creation-time order, none older than one left out; each item carries its
\* row's fields, a null payload as the empty map.
C11_ListNewestFirst ==
    feed.op = "list" /\ feed.status = "200" =>
       LET items == feed.items
           mine == OwnedBy(feed.caller)
           ids == {items[k].id : k \in 1..Len(items)}
       IN  /\ ids \subseteq mine
           /\ Cardinality(ids) = Len(items)
           /\ Len(items) <= 50
           /\ Cardinality(mine) <= 50 => ids = mine
           /\ Cardinality(mine) > 50 => Len(items) = 50
           /\ \A k \in 1..(Len(items) - 1) : items[k].createdAt >= items[k + 1].createdAt
           /\ \A i \in mine \ ids : \A k \in 1..Len(items) :
                 notifications[i].created_at <= items[k].createdAt
           /\ \A k \in 1..Len(items) :
                 LET n == notifications[items[k].id]
                 IN  /\ items[k].createdAt = n.created_at
                     /\ items[k].readAt = n.read_at
                     /\ items[k].type = n.type
                     /\ n.data = None => items[k].data = {}
                     /\ n.data # None => items[k].data = Get(n.data)

\* alice holds more than 50 notifications and is sent 50 of them, two of
\* equal creation time next to each other, one with a null payload, one read
C11_Witness ==
    /\ feed.op = "list" /\ feed.status = "200" /\ feed.caller = "alice"
    /\ Cardinality(OwnedBy("alice")) > 50
    /\ Len(feed.items) = 50
    /\ \E k \in 1..49 : feed.items[k].createdAt = feed.items[k + 1].createdAt
    /\ \E k \in 1..50 : notifications[feed.items[k].id].data = None /\ feed.items[k].data = {}
    /\ \E k \in 1..50 : feed.items[k].readAt # None
    /\ \E i \in DOMAIN notifications : notifications[i].user_id = UserIds["bob"]

\* C12: markRead by a caller on an id that does not exist or belongs to
\* another account fails with 404 and leaves the table unchanged; a row
\* changes only in a step where its owner's markRead on it is answered 204,
\* and then only its read timestamp changes, to the time of the call, and no
\* other row changes; rows are never removed and new rows are unread.
C12_MarkReadOwnerOnly ==
    [][/\ \A caller \in Callers, id \in NotificationIds :
             (/\ mark_notification_read(caller, id)
              /\ \/ id \notin DOMAIN notifications
                 \/ get_user(caller) # Some(notifications[id].user_id))
             => feed'.status = "404" /\ notifications' = notifications
       /\ Len(notifications') >= Len(notifications)
       /\ \A i \in DOMAIN notifications' \ DOMAIN notifications :
             notifications'[i].read_at = None
       /\ \A i \in DOMAIN notifications :
             notifications'[i] # notifications[i] =>
                /\ feed'.op = "mark_read" /\ feed'.status = "204" /\ feed'.arg = i
                /\ get_user(feed'.caller) = Some(notifications[i].user_id)
                /\ notifications'[i] = [notifications[i] EXCEPT !.read_at = Some(clock)]
                /\ \A j \in DOMAIN notifications \ {i} :
                      notifications'[j] = notifications[j]]_vars

\* alice, who has read her own notification 1, is refused on bob's
\* notification 10, which stays unread
C12_Witness ==
    /\ feed.op = "mark_read" /\ feed.caller = "alice" /\ feed.arg = 10
    /\ feed.status = "404" /\ feed.detail = "Notification not found"
    /\ 10 \in DOMAIN notifications
    /\ notifications[10].user_id = UserIds["bob"]
    /\ notifications[10].read_at = None
    /\ notifications[1].read_at # None

\* every request has run and closed its session
AllDone == \A r \in Requests : inflight[r].pc = "done"

\* the row after `call` has run alone on `row`
Apply(call, row) ==
    LET t == Body(call, row, call.now) IN IF t.commit THEN t.row ELSE row

\* the rows that the calls of the requests in R leave when run one after the
\* other, in any order, from `row`
RECURSIVE SerialFrom(_, _)
SerialFrom(row, R) ==
    IF R = {} THEN {row}
    ELSE UNION {SerialFrom(Apply(inflight[r].call, row), R \ {r}) : r \in R}

\* C13: when overlapping updateProfile, requestCode and verifyCode calls on a
\* profile have all finished, the profile is one that running the same calls
\* one after the other, in some order, produces; and if a verifyCode among
\* them returned true for an email that is no longer the stored one, the
\* email verified timestamp is not set.
C13_Serializable ==
    AllDone =>
       /\ Stored("alice") \in SerialFrom(Get(raceStart), Requests)
       /\ \A r \in Requests :
             (/\ inflight[r].call.op = "verify_email"
              /\ inflight[r].txn.result = "True"
              /\ Stored("alice").email # inflight[r].snap.email)
             => Stored("alice").email_verified_at = None

\* the requests that ran a requestCode call
Requesters == {r \in Requests : inflight[r].call.op \in RequestOps}

\* C16: when two overlapping requestCode calls made less than 60 seconds
\* apart have finished, at most one of them has succeeded, and the profile
\* holds exactly one pending hash, with the hash, expiry and request
\* timestamp that the successful call wrote.
C16_OneRequestWins ==
    AllDone =>
       \A r1, r2 \in Requesters :
          (/\ r1 # r2
           /\ inflight[r1].call.now - inflight[r2].call.now < REQUEST_COOLDOWN_SECONDS
           /\ inflight[r2].call.now - inflight[r1].call.now < REQUEST_COOLDOWN_SECONDS
           /\ inflight[r1].txn.result = "ok")
          => /\ inflight[r2].txn.result = "RateLimited"
             /\ LET row == inflight[r1].txn.row
                IN  /\ Stored("alice").verify_email_code_hash = row.verify_email_code_hash
                    /\ Stored("alice").verify_phone_code_hash = row.verify_phone_code_hash
                    /\ Stored("alice").verify_expires_at = row.verify_expires_at
                    /\ Stored("alice").verify_requested_at = row.verify_requested_at

\* C14 as stated: after any verifyCode call on the channel of a pending code,
\* whether it returned true or false, a verifyCode call with that code
\* returns false.
C14_EveryAttemptTerminal ==
    [][Active /\ Called(VerifyOps) /\ ChannelOf(lastOp'.op) = issued.channel =>
          \A u \in Accounts : WouldVerify(u, issued.channel, issued.code)' = "False"]_vars

\* C14 amended: only a verifyCode call that returned true is terminal for the
\* pending code, which then no longer verifies; a call that returned false
\* leaves unchanged what a later call with that code returns, so before the
\* expiry the code still verifies after any number of failed attempts.
C14_OnlySuccessTerminal ==
    [][Active /\ Called(VerifyOps) /\ ChannelOf(lastOp'.op) = issued.channel =>
          \A u \in Accounts :
             /\ lastOp'.result \in {"True", "False"}
             /\ lastOp'.result = "True" =>
                   WouldVerify(u, issued.channel, issued.code)' = "False"
             /\ lastOp'.result = "False" =>
                   /\ WouldVerify(u, issued.channel, issued.code)'
                         = WouldVerify(u, issued.channel, issued.code)
                   /\ clock <= issued.at + CodeTTL =>
                         WouldVerify(u, issued.channel, issued.code)' = "True"]_vars

\* a wrong candidate has just been refused for the pending email code, which
\* still verifies
C14_Witness ==
    /\ lastOp.op = "verify_email"
    /\ lastOp.result = "False"
    /\ lastOp.path = {"mismatch"}
    /\ Active /\ issued.channel = "email"
    /\ \A u \in Accounts : WouldVerify(u, "email", issued.code) = "True"

\* C15: updateProfile leaves every field its input omits unchanged, and an
\* updateProfile that names the email and not the phone leaves the phone
\* value, the phone verified timestamp and what verifyCode returns for any
\* phone code unchanged; symmetrically for the phone.
C15_PartialUpdateFrame ==
    [][Called({"update_profile"}) =>
          LET payload == Get(lastOp'.arg) IN
          \A u \in Accounts :
             /\ payload.firstName = None => Stored(u)'.first_name = Stored(u).first_name
             /\ payload.email = None =>
                   /\ Stored(u)'.email = Stored(u).email
                   /\ Stored(u)'.email_verified_at = Stored(u).email_verified_at
             /\ payload.phoneE164 = None =>
                   /\ Stored(u)'.phone_e164 = Stored(u).phone_e164
                   /\ Stored(u)'.phone_verified_at = Stored(u).phone_verified_at
             /\ payload.email # None /\ payload.phoneE164 = None =>
                   \A code \in GeneratedCodes :
                      WouldVerify(u, "phone", code)' = WouldVerify(u, "phone", code)
             /\ payload.phoneE164 # None /\ payload.email = None =>
                   \A code \in GeneratedCodes :
                      WouldVerify(u, "email", code)' = WouldVerify(u, "email", code)]_vars

\* C17: a requestCode call that fails with RateLimited or AccountNotFound
\* leaves every stored profile as it was, and the code issued before it
\* verifies after the call exactly when it did before: it does whenever it is
\* pending and not expired.
C17_RejectedRequestChangesNothing ==
    [][lastOp'.op \in RequestOps /\ lastOp'.result \in {"RateLimited", "AccountNotFound"} =>
          /\ profiles' = profiles
          /\ \A u \in Accounts : \A ch \in {"email", "phone"} : \A code \in GeneratedCodes :
                WouldVerify(u, ch, code)' = WouldVerify(u, ch, code)
          /\ Active /\ clock <= issued.at + CodeTTL =>
                \A u \in Accounts : WouldVerify(u, issued.channel, issued.code)' = "True"]_vars

\* an email request has just been refused inside the cooldown of a pending
\* phone code, which still verifies
C17_Witness ==
    /\ lastOp.op = "request_email_code"
    /\ lastOp.result = "RateLimited"
    /\ Active /\ issued.channel = "phone"
    /\ clock > issued.at
    /\ \A u \in Accounts :
          /\ Stored(u).verify_requested_at = Some(issued.at)
          /\ WouldVerify(u, "phone", issued.code) = "True"

\* C18: a login whose username is empty after trimming, or whose password
\* or role does not match, is answered with an error, adds no session and
\* sets no cookie; any other login adds exactly one session, for the trimmed
\* username with the account's role, leaves the other sessions as they are,
\* and sets exactly the cookies session_token (httpOnly) and session_role
\* (readable), carrying that session's token and role, both with max-age
\* equal to the session TTL in seconds.
C18_LoginSessionOnSuccess ==
    [][lastOp'.op = "login" =>
          LET payload == Get(lastOp'.arg)
              name == Strip(payload.username)
              matches == /\ name \in DOMAIN credentials
                         /\ credentials[name].password = payload.password
                         /\ credentials[name].role = payload.role
              added == DOMAIN sessions' \ DOMAIN sessions
          IN  /\ response'.op = "login"
              /\ name = <<>> =>
                    /\ response'.status = "400"
                    /\ sessions' = sessions /\ response'.cookies = {}
              /\ name # <<>> /\ ~matches =>
                    /\ response'.status = "InvalidCredentials"
                    /\ sessions' = sessions /\ response'.cookies = {}
              /\ name # <<>> /\ matches =>
                    /\ response'.status = "200"
                    /\ Cardinality(added) = 1
                    /\ \A t2 \in DOMAIN sessions :
                          t2 \in DOMAIN sessions' /\ sessions'[t2] = sessions[t2]
                    /\ \A t \in added :
                          /\ sessions'[t].token = t
                          /\ sessions'[t].username = name
                          /\ sessions'[t].role = payload.role
                          /\ sessions'[t].expires_at = clock + SESSION_TTL_MINUTES * 60
                          /\ response'.cookies =
                                {[name |-> "session_token", value |-> t, httponly |-> TRUE,
                                  samesite |-> "lax", max_age |-> SESSION_TTL_MINUTES * 60],
                                 [name |-> "session_role", value |-> payload.role,
                                  httponly |-> FALSE, samesite |-> "lax",
                                  max_age |-> SESSION_TTL_MINUTES * 60]}]_vars

\* a login with the wrong role has just been refused while a session from an
\* earlier login as " a" is valid
C18_Witness ==
    /\ lastOp.op = "login"
    /\ \E payload \in lastOp.arg : payload.username = <<"a">> /\ payload.role = "admin"
    /\ response.op = "login" /\ response.status = "InvalidCredentials"
    /\ response.cookies = {}
    /\ \E t \in DOMAIN sessions : sessions[t].username = <<"a">> /\ validate(t) = "ok"
    /\ clock > 0

\* the forms in which update_profile stores an email and a phone
StoredEmail(email) == OrNone(Strip(Lower(email)))
StoredPhone(phone) == OrNone(Strip(phone))

\* C19: an updateProfile whose email is present and, lower-cased and trimmed,
\* equals the stored email leaves the email verified timestamp and pending
\* hash unchanged, and the shared expiry and request timestamp too unless the
\* same call changes the phone; symmetrically for a phone that, trimmed,
\* equals the stored phone.
C19_NoResetWithoutChange ==
    [][Called({"update_profile"}) =>
          LET payload == Get(lastOp'.arg) IN
          \A u \in Accounts :
             LET sameEmail == payload.email # None
                                 /\ StoredEmail(Get(payload.email)) = Stored(u).email
                 samePhone == payload.phoneE164 # None
                                 /\ StoredPhone(Get(payload.phoneE164)) = Stored(u).phone_e164
                 sharedKept == /\ Stored(u)'.verify_expires_at = Stored(u).verify_expires_at
                               /\ Stored(u)'.verify_requested_at = Stored(u).verify_requested_at
             IN  /\ sameEmail =>
                       /\ Stored(u)'.email_verified_at = Stored(u).email_verified_at
                       /\ Stored(u)'.verify_email_code_hash = Stored(u).verify_email_code_hash
                       /\ (payload.phoneE164 = None \/ samePhone) => sharedKept
                 /\ samePhone =>
                       /\ Stored(u)'.phone_verified_at = Stored(u).phone_verified_at
                       /\ Stored(u)'.verify_phone_code_hash = Stored(u).verify_phone_code_hash
                       /\ (payload.email = None \/ sameEmail) => sharedKept]_vars

====
